---- MODULE Spec2Model ----
(***************************************************************************)
(* Model of etl.py: a batch job that reads catalog (song) records and      *)
(* event (log) records and writes analytic tables with overwrite mode.     *)
(*                                                                         *)
(* One behaviour is a sequence of invocations of main() over inputs that   *)
(* stay the same.  Every statement of main, process_song_data and          *)
(* process_log_data that can execute is one action.  A call into the       *)
(* dataframe engine (session creation, read, write) either succeeds or     *)
(* raises; which of the two is the environment's choice.  A DataFrame is   *)
(* an unordered collection of rows; every table the job derives goes       *)
(* through dropDuplicates on a key, so rows are kept as sets.              *)
(*                                                                         *)
(* process_log_data evaluates the name date_convert at line 92.  The       *)
(* module neither defines nor imports that name, so the statement raises   *)
(* NameError on every input; lines 93-139 and the return of main (the      *)
(* time table, the second catalog read, monotonically_increasing_id, the   *)
(* SQL join and the songplays write) never execute and have no action.     *)
(***************************************************************************)
EXTENDS Naturals, FiniteSets, Sequences

\* ---------------------------------------------------------------- bounds
MaxCatalog == 2
MaxEvents == 2
MaxRuns == 2

\* ---------------------------------------------------------------- inputs
SongIds == {"S1", "S2"}
ArtistIds == {"A1", "A2"}
UserIds == {"U1", "U2"}
Pages == {"NextSong", "Home"}
Variants == {1, 2}

\* One catalog record: the key fields are free, the variant fixes the others.
CatalogRecord(sid, aid, v) ==
    [song_id |-> sid, title |-> IF v = 1 THEN "T1" ELSE "T2",
     artist_id |-> aid, artist_name |-> IF v = 1 THEN "N1" ELSE "N2",
     artist_location |-> IF v = 1 THEN "L1" ELSE "L2",
     artist_latitude |-> 10 + v, artist_longitude |-> 20 + v,
     year |-> 1999 + v, duration |-> 180 + v]

CatalogRecords == {CatalogRecord(s, a, v) : s \in SongIds, a \in ArtistIds, v \in Variants}

\* One event record.
EventRecord(uid, pg, v) ==
    [userId |-> uid, firstName |-> IF v = 1 THEN "F1" ELSE "F2",
     lastName |-> IF v = 1 THEN "G1" ELSE "G2",
     gender |-> IF v = 1 THEN "F" ELSE "M",
     level |-> IF v = 1 THEN "free" ELSE "paid",
     page |-> pg, ts |-> 1000 * v,
     song |-> IF v = 1 THEN "T1" ELSE "T2",
     artist |-> IF v = 1 THEN "N1" ELSE "N2",
     length |-> 180 + v, sessionId |-> v,
     location |-> IF v = 1 THEN "L1" ELSE "L2",
     userAgent |-> IF v = 1 THEN "UA1" ELSE "UA2"]

EventRecords == {EventRecord(u, p, v) : u \in UserIds, p \in Pages, v \in Variants}

BoundedSubsets(S, n) == {T \in SUBSET S : Cardinality(T) <= n}

\* ---------------------------------------------------------------- state
VARIABLES
    catalog,    \* records under <input>/song_data
    events,     \* records under <input>/log_data
    store,      \* output path -> what it holds
    pc,         \* the statement main is about to execute
    err,        \* the exception that ended the current run
    df,         \* the local DataFrame df of the running stage
    written,    \* the tables the current run has written, in order
    runs        \* invocations of main so far

vars == <<catalog, events, store, pc, err, df, written, runs>>

Tables == {"songs", "artists", "users", "times", "songplays"}

NoError == "none"
EngineError == "EngineError"
NameError == "NameError"

Absent == [exists |-> FALSE, rows |-> {}]

\* ---------------------------------------------------------------- DataFrame operations
select(rows, cols) == {[c \in cols |-> r[c]] : r \in rows}

\* dropDuplicates keeps one row per key value, which one is not defined:
\* the set of tables it may return.
dropDuplicates(rows, key) ==
    {T \in SUBSET rows :
        \A r \in rows : Cardinality({t \in T : t[key] = r[key]}) = 1}

withColumnRenamed(rows, old, new) ==
    {[c \in (DOMAIN r \ {old}) \cup {new} |-> IF c = new THEN r[old] ELSE r[c]] : r \in rows}

filter_NoFilter(rows) == rows

filter(rows) == {r \in rows : r.page = "NextSong"}

SongsColumns == {"song_id", "title", "artist_id", "year", "duration"}
ArtistsColumns == {"artist_id", "artist_name", "artist_location", "artist_latitude", "artist_longitude"}
UsersColumns == {"userId", "firstName", "lastName", "gender", "level"}

songs_table_NoDedup(d) == {select(d, SongsColumns)}

songs_table(d) == dropDuplicates(select(d, SongsColumns), "song_id")

artists_table_ByName(d) ==
    {withColumnRenamed(withColumnRenamed(withColumnRenamed(withColumnRenamed(T,
        "artist_name", "name"), "artist_location", "location"),
        "artist_latitude", "latitude"), "artist_longitude", "longitude") :
     T \in dropDuplicates(select(d, ArtistsColumns), "artist_name")}

artists_table(d) ==
    {withColumnRenamed(withColumnRenamed(withColumnRenamed(withColumnRenamed(T,
        "artist_name", "name"), "artist_location", "location"),
        "artist_latitude", "latitude"), "artist_longitude", "longitude") :
     T \in dropDuplicates(select(d, ArtistsColumns), "artist_id")}

users_table(d) ==
    {withColumnRenamed(withColumnRenamed(withColumnRenamed(T,
        "userId", "user_id"), "firstName", "first_name"), "lastName", "last_name") :
     T \in dropDuplicates(select(d, UsersColumns), "userId")}

\* ---------------------------------------------------------------- control
\* An exception is not caught anywhere: it leaves main and ends the process.
Raise_Swallow(e, next) == pc' = next /\ err' = e

Raise(e, next) == pc' = "aborted" /\ err' = e

\* parquet(path, 'overwrite') that succeeds: the path holds the new table only.
\* One that raises leaves the old content or nothing.
WriteParquet(path, table, next) ==
    \/ /\ store' = [store EXCEPT ![path] = [exists |-> TRUE, rows |-> table]]
       /\ written' = Append(written, path)
       /\ pc' = next
       /\ err' = err
    \/ /\ store' \in {store, [store EXCEPT ![path] = Absent]}
       /\ written' = written
       /\ Raise(EngineError, next)

Init ==
    /\ catalog \in BoundedSubsets(CatalogRecords, MaxCatalog)
    /\ events \in BoundedSubsets(EventRecords, MaxEvents)
    /\ store = [t \in Tables |-> Absent]
    /\ pc = "idle"
    /\ err = NoError
    /\ df = {}
    /\ written = <<>>
    /\ runs = 0

\* __main__: one invocation of main(); a new process starts with no exception
\* pending and no DataFrame.
main ==
    /\ pc \in {"idle", "aborted", "returned"}
    /\ runs < MaxRuns
    /\ runs' = runs + 1
    /\ pc' = "create_spark_session"
    /\ err' = NoError
    /\ df' = {}
    /\ written' = <<>>
    /\ UNCHANGED <<catalog, events, store>>

create_spark_session ==
    /\ pc = "create_spark_session"
    /\ \/ pc' = "song_read" /\ err' = err
       \/ Raise(EngineError, "song_read")
    /\ UNCHANGED <<catalog, events, store, df, written, runs>>

\* process_song_data, line 40.  read.load uses the session's default data source
\* (spark.sql.sources.default); whether it can read the *.json files is the
\* engine's answer, one of the two outcomes below.
song_read ==
    /\ pc = "song_read"
    /\ \/ df' = catalog /\ pc' = "songs_write" /\ err' = err
       \/ df' = df /\ Raise(EngineError, "songs_write")
    /\ UNCHANGED <<catalog, events, store, written, runs>>

\* process_song_data, lines 43-48
songs_write ==
    /\ pc = "songs_write"
    /\ \E t \in songs_table(df) : WriteParquet("songs", t, "artists_write")
    /\ UNCHANGED <<catalog, events, df, runs>>

\* process_song_data, lines 51-60
artists_write ==
    /\ pc = "artists_write"
    /\ \E t \in artists_table(df) : WriteParquet("artists", t, "log_read")
    /\ UNCHANGED <<catalog, events, df, runs>>

\* process_log_data, line 75
log_read ==
    /\ pc = "log_read"
    /\ \/ df' = events /\ pc' = "log_filter" /\ err' = err
       \/ df' = df /\ Raise(EngineError, "log_filter")
    /\ UNCHANGED <<catalog, events, store, written, runs>>

\* process_log_data, line 78
log_filter ==
    /\ pc = "log_filter"
    /\ df' = filter(df)
    /\ pc' = "users_write"
    /\ UNCHANGED <<catalog, events, store, err, written, runs>>

\* process_log_data, lines 81-89
users_write ==
    /\ pc = "users_write"
    /\ \E t \in users_table(df) : WriteParquet("users", t, "get_timestamp")
    /\ UNCHANGED <<catalog, events, df, runs>>

\* process_log_data, line 92: udf(date_convert, TimestampType()) looks up the
\* global name date_convert, which does not exist.
get_timestamp ==
    /\ pc = "get_timestamp"
    /\ Raise(NameError, "time_table")
    /\ UNCHANGED <<catalog, events, store, df, written, runs>>

Next ==
    \/ main
    \/ create_spark_session
    \/ song_read
    \/ songs_write
    \/ artists_write
    \/ log_read
    \/ log_filter
    \/ users_write
    \/ get_timestamp

Spec == Init /\ [][Next]_vars

\* ---------------------------------------------------------------- properties
Range(s) == {s[i] : i \in 1..Len(s)}
Keys(rows, key) == {r[key] : r \in rows}
UniqueKey(rows, key) == \A r1, r2 \in rows : r1[key] = r2[key] => r1 = r2

UsersOutColumns == {"user_id", "first_name", "last_name", "gender", "level"}
ArtistsOutColumns == {"artist_id", "name", "location", "latitude", "longitude"}

\* A run has ended, and no call into the engine (read, parse, write) raised in it.
RunEnded == pc \in {"aborted", "returned"}
CleanRunEnded == RunEnded /\ err # EngineError

\* The filtered events that have an exact catalog match on (title, artist, duration).
MatchedEvents ==
    {e \in filter(events) :
        \E c \in catalog :
            c.title = e.song /\ c.artist_name = e.artist /\ c.duration = e.length}

\* C1: whenever the songs path holds a table, it has exactly one row per distinct
\* song_id of the catalog input (none missing, none repeated), and every row is
\* the five-field projection of some catalog record with that song_id.
C1_SongsOnePerSongId ==
    store["songs"].exists =>
        LET T == store["songs"].rows IN
        /\ Keys(T, "song_id") = Keys(catalog, "song_id")
        /\ UniqueKey(T, "song_id")
        /\ \A r \in T :
              /\ DOMAIN r = SongsColumns
              /\ \E c \in catalog : \A f \in SongsColumns : r[f] = c[f]

\* C1 witness: a second run has overwritten songs from a catalog in which two
\* different records share a song_id, and one row was kept for it.
C1_Witness ==
    /\ runs = 2
    /\ "songs" \in Range(written)
    /\ \E c1, c2 \in catalog : c1 # c2 /\ c1.song_id = c2.song_id
    /\ Cardinality(store["songs"].rows) = 1

\* C2: whenever the users path holds a table, it has exactly one row per distinct
\* userId among the NextSong events, no row for a user seen only on other pages,
\* and every row carries the renamed fields of one NextSong event of that user.
C2_UsersOnePerNextSongUser ==
    store["users"].exists =>
        LET T == store["users"].rows
            NS == {e \in events : e.page = "NextSong"} IN
        /\ Keys(T, "user_id") = Keys(NS, "userId")
        /\ UniqueKey(T, "user_id")
        /\ \A r \in T :
              /\ DOMAIN r = UsersOutColumns
              /\ \E e \in NS :
                    /\ r.user_id = e.userId
                    /\ r.first_name = e.firstName
                    /\ r.last_name = e.lastName
                    /\ r.gender = e.gender
                    /\ r.level = e.level

\* C2 witness: users was written from events in which one user played a song and
\* another user appears only on a page other than NextSong.
C2_Witness ==
    /\ "users" \in Range(written)
    /\ Cardinality(store["users"].rows) = 1
    /\ \E e \in events :
          /\ e.page # "NextSong"
          /\ \A n \in events : n.userId = e.userId => n.page # "NextSong"

C4_SongplayIdIsKey ==
    CleanRunEnded =>
        /\ "songplays" \in Range(written)
        /\ store["songplays"].exists
        /\ UniqueKey(store["songplays"].rows, "songplay_id")

\* C5: a run in which no step fails does not abort, and a run that returned has
\* written songs, artists, users, times, songplays in that order.
C5_RunsToCompletion ==
    /\ pc = "aborted" => err = EngineError
    /\ pc = "returned" => written = <<"songs", "artists", "users", "times", "songplays">>

\* C6: an exception ends the run at once: the step that raises leaves the run
\* aborted, and from then on no table changes and no step of that run executes;
\* the only thing that can follow is a new invocation of main.
C6_FailFast ==
    [][/\ err' # NoError => pc' = "aborted"
       /\ err # NoError =>
             /\ store' = store
             /\ \/ pc' = "aborted" /\ written' = written /\ err' = err
                \/ pc' = "create_spark_session" /\ runs' = runs + 1]_vars

\* C6 witness: the event stage raised an engine error after the catalog stage had
\* written its two tables; users was not written.
C6_Witness ==
    /\ pc = "aborted"
    /\ err = EngineError
    /\ written = <<"songs", "artists">>
    /\ ~store["users"].exists

C8_NoNextSongEmptyTables ==
    (CleanRunEnded /\ \A e \in events : e.page # "NextSong") =>
        /\ \A t \in {"users", "times", "songplays"} :
              t \in Range(written) /\ store[t].exists /\ store[t].rows = {}
        /\ store["songs"].rows \in songs_table(catalog)
        /\ store["artists"].rows \in artists_table(catalog)

\* C9: whenever the artists path holds a table, it has exactly one row per distinct
\* artist_id of the catalog input, and every row carries the renamed fields of one
\* and the same catalog record with that artist_id.
C9_ArtistsOnePerArtistId ==
    store["artists"].exists =>
        LET T == store["artists"].rows IN
        /\ Keys(T, "artist_id") = Keys(catalog, "artist_id")
        /\ UniqueKey(T, "artist_id")
        /\ \A r \in T :
              /\ DOMAIN r = ArtistsOutColumns
              /\ \E c \in catalog :
                    /\ r.artist_id = c.artist_id
                    /\ r.name = c.artist_name
                    /\ r.location = c.artist_location
                    /\ r.latitude = c.artist_latitude
                    /\ r.longitude = c.artist_longitude

\* C9 witness: artists was written from a catalog in which two records share an
\* artist_id and differ in the artist's name, and one row was kept for it.
C9_Witness ==
    /\ "artists" \in Range(written)
    /\ \E c1, c2 \in catalog :
          c1.artist_id = c2.artist_id /\ c1.artist_name # c2.artist_name
    /\ Cardinality(store["artists"].rows) = 1

====
